---- MODULE Spec2Model ----
(***************************************************************************)
(* Feature-engineering pipeline of scripts/02_feature_engineering.py:      *)
(* main iterates the metals registry, loads each metal's price series,     *)
(* derives the technical indicators (build_features) and the risk rows     *)
(* (build_risk_events) and inserts both batches with                       *)
(* ON CONFLICT (metal_id, date) DO NOTHING, each batch in a transaction of *)
(* its own (engine.begin()).                                               *)
(*                                                                         *)
(* Floating-point cells are triples <<kind, n, d>>:                        *)
(*   <<"nan", 0, 1>>  the absent value (NaN / NULL)                        *)
(*   <<"inf", s, 0>>  +inf (s = 1) or -inf (s = -1)                        *)
(*   <<"num", n, d>>  the rational n/d, d > 0                              *)
(*   <<"log", n, d>>  ln(n/d), a finite value kept symbolic                *)
(* Exponential smoothing and the rolling standard deviation are carried    *)
(* in fixed point with denominator Scale (floor rounding).                 *)
(* Dates are the positions 1..N of the ascending series.                   *)
(***************************************************************************)
EXTENDS Integers, Sequences, FiniteSets, TLC

\* ------------------------------------------------------------------ bounds
\* Number of metals in the registry (metal_id 1..NumAssets).
NumAssets == 2
\* Longest price series drawn for a metal.
MaxLen == 51
\* Number of times main is run one after the other.
MaxRuns == 2
\* Fixed-point denominator of the smoothed and square-rooted cells.
Scale == 100

\* ------------------------------------------------------- float cell algebra
NaN == <<"nan", 0, 1>>

Inf(s) == <<"inf", s, 0>>

Num(n, d) == <<"num", n, d>>

isna(v) == v[1] = "nan"

isinf(v) == v[1] = "inf"

Sign(n) == IF n > 0 THEN 1 ELSE IF n < 0 THEN -1 ELSE 0

Neg(a) ==
    IF isna(a) THEN NaN
    ELSE IF isinf(a) THEN Inf(-a[2])
    ELSE Num(-a[2], a[3])

Add(a, b) ==
    IF isna(a) \/ isna(b) THEN NaN
    ELSE IF isinf(a) /\ isinf(b) THEN (IF a[2] = b[2] THEN a ELSE NaN)
    ELSE IF isinf(a) THEN a
    ELSE IF isinf(b) THEN b
    ELSE IF a[3] = b[3] THEN Num(a[2] + b[2], a[3])
    ELSE Num(a[2] * b[3] + b[2] * a[3], a[3] * b[3])

Minus(a, b) == Add(a, Neg(b))

Times(a, k) ==
    IF isna(a) THEN NaN
    ELSE IF isinf(a) THEN (IF k = 0 THEN NaN ELSE Inf(a[2] * Sign(k)))
    ELSE Num(a[2] * k, a[3])

\* IEEE division: x/0 is +-inf, 0/0 is NaN, x/inf is 0.
Div(a, b) ==
    IF isna(a) \/ isna(b) THEN NaN
    ELSE IF isinf(b) THEN (IF isinf(a) THEN NaN ELSE Num(0, 1))
    ELSE IF isinf(a) THEN Inf(IF b[2] < 0 THEN -a[2] ELSE a[2])
    ELSE IF b[2] = 0 THEN (IF a[2] = 0 THEN NaN ELSE Inf(Sign(a[2])))
    ELSE IF b[2] > 0 THEN Num(a[2] * b[3], a[3] * b[2])
    ELSE Num(-(a[2] * b[3]), a[3] * (-b[2]))

\* a <= b on cells; any comparison with NaN is false.
Leq(a, b) ==
    IF isna(a) \/ isna(b) THEN FALSE
    ELSE IF isinf(a) THEN (a[2] < 0 \/ (isinf(b) /\ b[2] > 0))
    ELSE IF isinf(b) THEN b[2] > 0
    ELSE a[2] * b[3] <= b[2] * a[3]

\* np.log of a positive ratio; log of NaN is NaN.
Log(a) == IF isna(a) THEN NaN ELSE <<"log", a[2], a[3]>>

ToScaled(v) == (v[2] * Scale) \div v[3]

\* Largest r in lo..hi with r*r <= n, by bisection.
RECURSIVE IsqrtIn(_, _, _)
IsqrtIn(n, lo, hi) ==
    IF lo >= hi THEN lo
    ELSE LET mid == (lo + hi + 1) \div 2
         IN IF mid * mid <= n THEN IsqrtIn(n, mid, hi) ELSE IsqrtIn(n, lo, mid - 1)

Isqrt(n) == IsqrtIn(n, 0, IF n < 40000 THEN n ELSE 40000)

\* ------------------------------------------------------ pandas column ops
\* The column with the n cells f[1..n], held as a sequence.
Series(f, n) == SubSeq(f, 1, n)

Col(df, f) == Series([i \in 1..Len(df) |-> df[i][f]], Len(df))

shift(col) == Series([i \in 1..Len(col) |-> IF i = 1 THEN NaN ELSE col[i - 1]], Len(col))

RECURSIVE LastValid(_, _)
LastValid(col, i) ==
    IF i = 0 THEN NaN
    ELSE IF isna(col[i]) THEN LastValid(col, i - 1)
    ELSE col[i]

ffill(col) == Series([i \in 1..Len(col) |-> LastValid(col, i)], Len(col))

\* Series.pct_change(): data / data.shift(1) - 1, where data is the column
\* forward-filled first when the installed pandas still pads (fill = TRUE).
pct_change(col, fill) ==
    LET data == IF fill THEN ffill(col) ELSE col
        prev == shift(data)
    IN Series([i \in 1..Len(col) |-> Add(Div(data[i], prev[i]), Num(-1, 1))], Len(col))

diff(col) ==
    LET prev == shift(col)
    IN Series([i \in 1..Len(col) |-> Minus(col[i], prev[i])], Len(col))

Value1(v) == IF isna(v) THEN 0 ELSE v[2]

Value2(v) == IF isna(v) THEN 0 ELSE v[2] * v[2]

Missing(v) == IF isna(v) THEN 1 ELSE 0

\* What a cell adds to the running total named by what.
Term(v, what) ==
    IF what = "sum" THEN Value1(v)
    ELSE IF what = "squares" THEN Value2(v)
    ELSE Missing(v)

\* Running totals c[i] = Term(col[1]) + ... + Term(col[i]), as rolling()
\* keeps them.
RECURSIVE cumsum_from(_, _, _, _)
cumsum_from(col, what, i, acc) ==
    IF i > Len(col) THEN acc
    ELSE cumsum_from(col, what, i + 1,
                     Append(acc, Term(col[i], what) + (IF i = 1 THEN 0 ELSE acc[i - 1])))

\* The total of c over the window of w cells that ends at i (i >= w).
Window(c, i, w) == c[i] - (IF i = w THEN 0 ELSE c[i - w])

\* rolling(w, min_periods=1): the mean of the cells seen so far while fewer
\* than w are available.
rolling_mean_min_periods_1(col, w) ==
    LET s  == cumsum_from(col, "sum", 1, <<>>)
        na == cumsum_from(col, "missing", 1, <<>>)
    IN Series([i \in 1..Len(col) |->
                 IF i < w THEN (IF na[i] = 0 THEN Num(s[i], i) ELSE NaN)
                 ELSE IF Window(na, i, w) = 0 THEN Num(Window(s, i, w), w)
                 ELSE NaN], Len(col))

\* Series.rolling(w).mean(): NaN until w observations, NaN over any NaN.
rolling_mean(col, w) ==
    LET s  == cumsum_from(col, "sum", 1, <<>>)
        na == cumsum_from(col, "missing", 1, <<>>)
    IN Series([i \in 1..Len(col) |->
                 IF i >= w /\ Window(na, i, w) = 0
                 THEN Num(Window(s, i, w), w)
                 ELSE NaN], Len(col))

\* Series.rolling(w).std(): sample standard deviation (ddof = 1).
rolling_std(col, w) ==
    LET s  == cumsum_from(col, "sum", 1, <<>>)
        sq == cumsum_from(col, "squares", 1, <<>>)
        na == cumsum_from(col, "missing", 1, <<>>)
    IN Series([i \in 1..Len(col) |->
                 IF i >= w /\ Window(na, i, w) = 0
                 THEN LET t == Window(s, i, w)
                          q == Window(sq, i, w)
                      IN Num(Isqrt(((w * q - t * t) * Scale * Scale) \div (w * (w - 1))),
                             Scale)
                 ELSE NaN], Len(col))

RECURSIVE ewm_from(_, _, _, _)
ewm_from(xs, span, i, acc) ==
    IF i > Len(xs) THEN acc
    ELSE ewm_from(xs, span, i + 1,
                  Append(acc, IF i = 1 THEN xs[1]
                              ELSE (2 * xs[i] + (span - 1) * acc[i - 1]) \div (span + 1)))

\* Series.ewm(span, adjust=False).mean(): y[1] = x[1],
\* y[i] = a*x[i] + (1-a)*y[i-1] with a = 2/(span+1).
ewm_mean(col, span) ==
    LET xs == Series([i \in 1..Len(col) |-> ToScaled(col[i])], Len(col))
        y  == ewm_from(xs, span, 1, <<>>)
    IN Series([i \in 1..Len(col) |-> Num(y[i], Scale)], Len(col))

\* ------------------------------------------------------- TECH INDICATORS
calculate_rsi(series, period) ==
    LET delta == diff(series)
        n     == Len(series)
        up    == Series([i \in 1..n |->
                    IF ~isna(delta[i]) /\ delta[i][2] > 0 THEN delta[i] ELSE Num(0, 1)], n)
        down  == Series([i \in 1..n |->
                    Neg(IF ~isna(delta[i]) /\ delta[i][2] < 0 THEN delta[i]
                        ELSE Num(0, 1))], n)
        gain  == rolling_mean(up, period)
        loss  == rolling_mean(down, period)
    IN Series([i \in 1..n |->
                 LET rs == Div(gain[i], loss[i])
                 IN Minus(Num(100, 1), Div(Num(100, 1), Add(Num(1, 1), rs)))], n)

calculate_macd(series, fast, slow, signal) ==
    LET ema_fast    == ewm_mean(series, fast)
        ema_slow    == ewm_mean(series, slow)
        n           == Len(series)
        macd        == Series([i \in 1..n |-> Minus(ema_fast[i], ema_slow[i])], n)
        macd_signal == ewm_mean(macd, signal)
        macd_hist   == Series([i \in 1..n |-> Minus(macd[i], macd_signal[i])], n)
    IN [macd |-> macd, macd_signal |-> macd_signal, macd_hist |-> macd_hist]

calculate_bollinger(series, window, num_std) ==
    LET mid   == rolling_mean(series, window)
        std   == rolling_std(series, window)
        n     == Len(series)
        upper == Series([i \in 1..n |-> Add(mid[i], Times(std[i], num_std))], n)
        lower == Series([i \in 1..n |-> Minus(mid[i], Times(std[i], num_std))], n)
        width == Series([i \in 1..n |-> Div(Minus(upper[i], lower[i]), mid[i])], n)
    IN [upper |-> upper, mid |-> mid, lower |-> lower, width |-> width]

\* ---------------------------------------------------- FEATURE ENGINEERING
\* The 20 indicator columns, in the order of the cols list.
FeatureCols ==
    <<"daily_return", "log_return", "sma_5", "sma_10", "sma_20", "sma_50",
      "ema_12", "ema_26", "bollinger_upper", "bollinger_middle",
      "bollinger_lower", "bollinger_width", "rsi_14", "macd", "macd_signal",
      "macd_histogram", "high_low_range", "high_low_ratio", "volume_change",
      "volume_sma_20">>

\* df: the frame load_price_data returns; fill: whether pct_change pads.
build_features(df, fill) ==
    LET close  == Col(df, "close")
        high   == Col(df, "high")
        low    == Col(df, "low")
        volume == Col(df, "volume")
        ret    == pct_change(close, fill)
        prev   == shift(close)
        sma5   == rolling_mean(close, 5)
        sma10  == rolling_mean(close, 10)
        sma20  == rolling_mean(close, 20)
        sma50  == rolling_mean(close, 50)
        ema12  == ewm_mean(close, 12)
        ema26  == ewm_mean(close, 26)
        boll   == calculate_bollinger(close, 20, 2)
        rsi    == calculate_rsi(close, 14)
        m      == calculate_macd(close, 12, 26, 9)
        vchg   == pct_change(volume, fill)
        vsma   == rolling_mean(volume, 20)
    IN Series([i \in 1..Len(df) |->
          df[i] @@
          [daily_return     |-> ret[i],
           log_return       |-> Log(Div(close[i], prev[i])),
           sma_5            |-> sma5[i],
           sma_10           |-> sma10[i],
           sma_20           |-> sma20[i],
           sma_50           |-> sma50[i],
           ema_12           |-> ema12[i],
           ema_26           |-> ema26[i],
           bollinger_upper  |-> boll.upper[i],
           bollinger_middle |-> boll.mid[i],
           bollinger_lower  |-> boll.lower[i],
           bollinger_width  |-> boll.width[i],
           rsi_14           |-> rsi[i],
           macd             |-> m.macd[i],
           macd_signal      |-> m.macd_signal[i],
           macd_histogram   |-> m.macd_hist[i],
           high_low_range   |-> Minus(high[i], low[i]),
           high_low_ratio   |-> IF low[i][2] > 0 THEN Div(high[i], low[i]) ELSE NaN,
           volume_change    |-> vchg[i],
           volume_sma_20    |-> vsma[i]]], Len(df))

\* ------------------------------------------------------------ RISK EVENTS
threshold == Num(-2, 100)

\* daily_return < threshold
RiskFlagStrict(daily_return, thr) == Leq(daily_return, thr) /\ ~Leq(thr, daily_return)

\* out["daily_return"] <= threshold
RiskFlag(daily_return, thr) == Leq(daily_return, thr)

build_risk_events(df, thr) ==
    LET prev == shift(Col(df, "close"))
        out  == Series([i \in 1..Len(df) |->
                   [metal_id         |-> df[i].metal_id,
                    date             |-> df[i].date,
                    previous_close   |-> prev[i],
                    current_close    |-> df[i].close,
                    price_change_pct |-> Times(df[i].daily_return, 100),
                    is_risk_event    |-> RiskFlag(df[i].daily_return, thr),
                    close            |-> df[i].close,
                    daily_return     |-> df[i].daily_return]], Len(df))
        Kept(r) == ~isna(r.previous_close) /\ ~isna(r.current_close)
                   /\ ~isna(r.daily_return)
    IN SelectSeq(out, Kept)

\* ------------------------------------------------------------- the store
Assets == 1..NumAssets

\* The two concurrent invocations of main considered for parallel runs.
Procs == {1, 2}

VARIABLES
    price_data,          \* metal_id -> ascending sequence of price points
    pandas_pads,         \* the installed pandas pads NaN in pct_change
    preloaded,           \* the store held rows before the first run
    technical_features,  \* committed rows of table technical_features
    risk_events,         \* committed rows of table risk_events
    pc,                  \* per invocation: position in main
    metal,               \* per invocation: index of the registry row in the loop
    df_feat,             \* per invocation: the frame build_features returned,
                         \* held until its last use (upsert_risk_events)
    tx,                  \* per invocation: the open transaction
    n_feat, n_risk,      \* per invocation: last returned batch sizes
    total_feat, total_risk,
    run,                 \* per invocation: how many times main was started
    inserted,            \* per invocation: rows this run really added (history)
    raised,              \* per invocation: the exception that ended main
    first                \* outcome of the first completed run (history)

vars == <<price_data, pandas_pads, preloaded, technical_features, risk_events,
          pc, metal, df_feat, tx, n_feat, n_risk, total_feat, total_risk, run,
          inserted, raised, first>>

inputs == <<price_data, pandas_pads, preloaded>>

Key(r) == <<r.metal_id, r.date>>

Keys(rows) == {Key(r) : r \in rows}

HasKey(rows, k) == \E t \in rows : Key(t) = k

NoTx == [table |-> "none", rows |-> <<>>, pos |-> 0, pending |-> {}]

Table(name) == IF name = "technical_features" THEN technical_features ELSE risk_events

\* INSERT without a conflict clause into a table without the unique key.
insert_anyway(visible, pending, row) ==
    [error |-> "none", pending |-> pending \cup {row}]

\* INSERT without a conflict clause: a duplicate key raises.
insert_or_raise(visible, pending, row) ==
    IF HasKey(visible, Key(row)) \/ HasKey(pending, Key(row))
    THEN [error |-> "unique_violation", pending |-> pending]
    ELSE [error |-> "none", pending |-> pending \cup {row}]

\* INSERT ... ON CONFLICT (metal_id, date) DO NOTHING of one row: the rows
\* visible to the statement are the committed ones and the transaction's own.
on_conflict_do_nothing(visible, pending, row) ==
    IF HasKey(visible, Key(row)) \/ HasKey(pending, Key(row))
    THEN [error |-> "none", pending |-> pending]
    ELSE [error |-> "none", pending |-> pending \cup {row}]

\* ------------------------------------------------------- price series drawn
Cycle == <<100, 97, 99, 100, 98>>

Kinds == {"plain", "vol0", "vol00", "volnull", "low0", "flat"}

MkPoint(n, kind, i) ==
    LET c == IF kind = "flat" /\ i > n - 15 THEN 100 ELSE Cycle[((i - 1) % 5) + 1]
    IN [date   |-> i,
        high   |-> Num(c + 1, 1),
        low    |-> IF kind = "low0" /\ i = n THEN Num(0, 1) ELSE Num(c - 1, 1),
        close  |-> Num(c, 1),
        volume |-> IF kind = "volnull" /\ i = n - 1 THEN NaN
                   ELSE IF kind \in {"vol0", "vol00"} /\ i = n - 1 THEN Num(0, 1)
                   ELSE IF kind = "vol00" /\ i = n THEN Num(0, 1)
                   ELSE Num(10 + 10 * (i % 2), 1)]

MkSeries(n, kind) == Series([i \in 1..n |-> MkPoint(n, kind, i)], n)

\* No rows at all, and the three closes 100, 97, 99.
BasicSeries == {MkSeries(0, "plain"), MkSeries(3, "plain")}

ShortSeries == {MkSeries(1, "plain"), MkSeries(5, "volnull")}

LongSeries == {MkSeries(MaxLen - 2, "plain"), MkSeries(MaxLen - 1, "plain")}
              \cup {MkSeries(MaxLen, k) : k \in Kinds}

SeriesSet == BasicSeries \cup ShortSeries \cup LongSeries

StaleCell == Num(0, 1)

StaleFeatureRow ==
    [f \in {"metal_id", "date"} \cup {FeatureCols[k] : k \in 1..Len(FeatureCols)} |->
        IF f = "metal_id" THEN 1 ELSE IF f = "date" THEN MaxLen - 1 ELSE StaleCell]

StaleRiskRow ==
    [metal_id |-> 1, date |-> 2, is_risk_event |-> FALSE,
     price_change_pct |-> StaleCell, previous_close |-> StaleCell,
     current_close |-> StaleCell]

\* ------------------------------------------------------------------- main
\* SELECT ... FROM price_data WHERE metal_id = :metal_id ORDER BY date ASC
load_price_data(metal_id) ==
    Series([i \in 1..Len(price_data[metal_id]) |->
              [metal_id |-> metal_id] @@ price_data[metal_id][i]],
           Len(price_data[metal_id]))

Complete(r) == \A k \in 1..Len(FeatureCols) : ~isna(r[FeatureCols[k]])

\* feat = df[cols]
FeatureBatchNoDropna(df) ==
    LET cols == {"metal_id", "date"} \cup {FeatureCols[k] : k \in 1..Len(FeatureCols)}
    IN Series([i \in 1..Len(df) |-> [f \in cols |-> df[i][f]]], Len(df))

\* feat = df[cols].dropna()
FeatureBatch(df) ==
    LET cols == {"metal_id", "date"} \cup {FeatureCols[k] : k \in 1..Len(FeatureCols)}
        proj == Series([i \in 1..Len(df) |-> [f \in cols |-> df[i][f]]], Len(df))
    IN SelectSeq(proj, Complete)

\* risk = build_risk_events(df), bound to the VALUES list of the INSERT
RiskBatch(df) ==
    LET risk == build_risk_events(df, threshold)
    IN Series([i \in 1..Len(risk) |->
          [metal_id         |-> risk[i].metal_id,
           date             |-> risk[i].date,
           is_risk_event    |-> risk[i].is_risk_event,
           price_change_pct |-> risk[i].price_change_pct,
           previous_close   |-> risk[i].previous_close,
           current_close    |-> risk[i].current_close]], Len(risk))

InitWith(started, series, pads) ==
    /\ price_data \in [Assets -> series]
    /\ Cardinality({a \in Assets : price_data[a] \notin BasicSeries}) <= 1
    /\ pandas_pads \in pads
    /\ preloaded \in BOOLEAN
    /\ technical_features = IF preloaded THEN {StaleFeatureRow} ELSE {}
    /\ risk_events = IF preloaded THEN {StaleRiskRow} ELSE {}
    /\ pc = [p \in Procs |-> IF p \in started THEN "start" ELSE "off"]
    /\ metal = [p \in Procs |-> 1]
    /\ df_feat = [p \in Procs |-> <<>>]
    /\ tx = [p \in Procs |-> NoTx]
    /\ n_feat = [p \in Procs |-> 0]
    /\ n_risk = [p \in Procs |-> 0]
    /\ total_feat = [p \in Procs |-> 0]
    /\ total_risk = [p \in Procs |-> 0]
    /\ run = [p \in Procs |-> 0]
    /\ inserted = [p \in Procs |-> 0]
    /\ raised = [p \in Procs |-> "none"]
    /\ first = [valid |-> FALSE, technical_features |-> {}, risk_events |-> {},
                total_feat |-> 0, total_risk |-> 0]

Init == InitWith({1}, SeriesSet, BOOLEAN)

\* main up to the loop: connect, read the registry, zero the totals.
MainStart(p) ==
    /\ pc[p] = "start"
    /\ pc' = [pc EXCEPT ![p] = "loop"]
    /\ metal' = [metal EXCEPT ![p] = 1]
    /\ total_feat' = [total_feat EXCEPT ![p] = 0]
    /\ total_risk' = [total_risk EXCEPT ![p] = 0]
    /\ run' = [run EXCEPT ![p] = @ + 1]
    /\ inserted' = [inserted EXCEPT ![p] = 0]
    /\ raised' = [raised EXCEPT ![p] = "none"]
    /\ UNCHANGED <<inputs, df_feat, technical_features, risk_events, tx, n_feat, n_risk, first>>

\* pd.read_sql inside load_price_data raises: nothing in main catches it.
LoadRaises(p) ==
    /\ pc[p] = "loop"
    /\ metal[p] <= NumAssets
    /\ pc' = [pc EXCEPT ![p] = "aborted"]
    /\ raised' = [raised EXCEPT ![p] = "load"]
    /\ UNCHANGED <<inputs, df_feat, technical_features, risk_events, metal, tx, n_feat,
                   n_risk, total_feat, total_risk, run, inserted, first>>

\* load_price_data returns None: warn and continue with the next metal.
LoadEmpty(p) ==
    /\ pc[p] = "loop"
    /\ metal[p] <= NumAssets
    /\ Len(load_price_data(metal[p])) = 0
    /\ metal' = [metal EXCEPT ![p] = @ + 1]
    /\ UNCHANGED <<inputs, df_feat, technical_features, risk_events, pc, tx, n_feat, n_risk,
                   total_feat, total_risk, run, inserted, raised, first>>

\* load_price_data returns a frame; build_features; upsert_technical_features
\* drops the incomplete rows and opens its transaction.
LoadAndBeginFeatures(p) ==
    /\ pc[p] = "loop"
    /\ metal[p] <= NumAssets
    /\ Len(load_price_data(metal[p])) > 0
    /\ df_feat' = [df_feat EXCEPT ![p] =
                       build_features(load_price_data(metal[p]), pandas_pads)]
    /\ pc' = [pc EXCEPT ![p] = "write_feat"]
    /\ tx' = [tx EXCEPT ![p] = [table |-> "technical_features",
                                rows |-> FeatureBatch(df_feat'[p]),
                                pos |-> 1, pending |-> {}]]
    /\ UNCHANGED <<inputs, technical_features, risk_events, metal, n_feat, n_risk,
                   total_feat, total_risk, run, inserted, raised, first>>

\* conn.execute(sql, records): the next record of the batch.  The statement
\* waits while another open transaction holds an uncommitted row of its key.
InsertRow(p) ==
    /\ pc[p] \in {"write_feat", "write_risk"}
    /\ tx[p].pos <= Len(tx[p].rows)
    /\ LET row == tx[p].rows[tx[p].pos]
           res == on_conflict_do_nothing(Table(tx[p].table), tx[p].pending, row)
       IN /\ ~\E q \in Procs \ {p} :
                 tx[q].table = tx[p].table /\ HasKey(tx[q].pending, Key(row))
          /\ IF res.error = "none"
             THEN /\ tx' = [tx EXCEPT ![p].pending = res.pending, ![p].pos = @ + 1]
                  /\ UNCHANGED <<pc, raised>>
             ELSE /\ tx' = [tx EXCEPT ![p] = NoTx]
                  /\ pc' = [pc EXCEPT ![p] = "aborted"]
                  /\ raised' = [raised EXCEPT ![p] = res.error]
    /\ UNCHANGED <<inputs, df_feat, technical_features, risk_events, metal, n_feat, n_risk,
                   total_feat, total_risk, run, inserted, first>>

\* The store fails inside a transaction: engine.begin() rolls it back and the
\* exception leaves upsert_* and main.
StoreFailure(p) ==
    /\ pc[p] \in {"write_feat", "write_risk"}
    /\ tx' = [tx EXCEPT ![p] = NoTx]
    /\ pc' = [pc EXCEPT ![p] = "aborted"]
    /\ raised' = [raised EXCEPT ![p] = "store"]
    /\ UNCHANGED <<inputs, df_feat, technical_features, risk_events, metal, n_feat, n_risk,
                   total_feat, total_risk, run, inserted, first>>

\* End of the with-block of upsert_technical_features: commit, return
\* len(feat); upsert_risk_events builds its batch and opens its transaction.
CommitFeatures(p) ==
    /\ pc[p] = "write_feat"
    /\ tx[p].pos > Len(tx[p].rows)
    /\ technical_features' = technical_features \cup tx[p].pending
    /\ n_feat' = [n_feat EXCEPT ![p] = Len(tx[p].rows)]
    /\ inserted' = [inserted EXCEPT ![p] = @ + Cardinality(tx[p].pending)]
    /\ pc' = [pc EXCEPT ![p] = "write_risk"]
    /\ tx' = [tx EXCEPT ![p] = [table |-> "risk_events",
                                rows |-> RiskBatch(df_feat[p]),
                                pos |-> 1, pending |-> {}]]
    /\ df_feat' = [df_feat EXCEPT ![p] = <<>>]   \* not read again by main
    /\ UNCHANGED <<inputs, risk_events, metal, n_risk, total_feat, total_risk, run,
                   raised, first>>

\* End of the with-block of upsert_risk_events: commit, return len(risk);
\* main adds both counts to the totals and goes to the next metal.
CommitRisk(p) ==
    /\ pc[p] = "write_risk"
    /\ tx[p].pos > Len(tx[p].rows)
    /\ risk_events' = risk_events \cup tx[p].pending
    /\ n_risk' = [n_risk EXCEPT ![p] = Len(tx[p].rows)]
    /\ inserted' = [inserted EXCEPT ![p] = @ + Cardinality(tx[p].pending)]
    /\ total_feat' = [total_feat EXCEPT ![p] = @ + n_feat[p]]
    /\ total_risk' = [total_risk EXCEPT ![p] = @ + Len(tx[p].rows)]
    /\ metal' = [metal EXCEPT ![p] = @ + 1]
    /\ pc' = [pc EXCEPT ![p] = "loop"]
    /\ tx' = [tx EXCEPT ![p] = NoTx]
    /\ UNCHANGED <<inputs, df_feat, technical_features, n_feat, run, raised, first>>

\* The loop is exhausted: main prints DONE and the two totals.
Summary(p) ==
    /\ pc[p] = "loop"
    /\ metal[p] > NumAssets
    /\ pc' = [pc EXCEPT ![p] = "done"]
    /\ UNCHANGED <<inputs, df_feat, technical_features, risk_events, metal, tx, n_feat, n_risk,
                   total_feat, total_risk, run, inserted, raised, first>>

\* The script is started again after main has printed its summary.
Rerun(p) ==
    /\ pc[p] = "done"
    /\ run[p] < MaxRuns
    /\ pc' = [pc EXCEPT ![p] = "start"]
    /\ first' = IF run[p] = 1
                THEN [valid |-> ~preloaded,
                      technical_features |-> technical_features,
                      risk_events |-> risk_events,
                      total_feat |-> total_feat[p],
                      total_risk |-> total_risk[p]]
                ELSE first
    /\ UNCHANGED <<inputs, df_feat, technical_features, risk_events, metal, tx, n_feat, n_risk,
                   total_feat, total_risk, run, inserted, raised>>

\* The steps of main other than a failing load.
Work(p) ==
    \/ MainStart(p)
    \/ LoadEmpty(p)
    \/ LoadAndBeginFeatures(p)
    \/ InsertRow(p)
    \/ StoreFailure(p)
    \/ CommitFeatures(p)
    \/ CommitRisk(p)
    \/ Summary(p)

Next == Work(1) \/ LoadRaises(1) \/ Rerun(1)

Spec == Init /\ [][Next]_vars

\* Two invocations of main running against the same store at once, over
\* series without null volumes (padding then changes no cell); the store
\* may fail and roll a transaction back, the loads succeed.
ParInit == InitWith(Procs, BasicSeries \cup {MkSeries(MaxLen, "plain")}, {TRUE})

ParNext == \E p \in Procs : Work(p)

ParSpec == ParInit /\ [][ParNext]_vars

\* ================================================================ claims
\* rolling(50): the longest window, so the first date with every indicator.
WarmUp == 50

MainEnded(p) == pc[p] \in {"done", "aborted"}

RiskKeys(a) == {<<a, d>> : d \in 2..Len(price_data[a])}

Range(seq) == {seq[k] : k \in 1..Len(seq)}

UniqueKeys(rows) == Cardinality(Keys(rows)) = Cardinality(rows)

\* C1: a second run after a first run that began on an empty store and
\* printed its summary leaves both tables with the same rows, reports the
\* same totals and adds no row.
C1_RerunIdempotent ==
    (pc[1] = "done" /\ run[1] >= 2 /\ first.valid) =>
        /\ technical_features = first.technical_features
        /\ risk_events = first.risk_events
        /\ total_feat[1] = first.total_feat
        /\ total_risk[1] = first.total_risk
        /\ inserted[1] = 0

C1_Witness ==
    /\ pc[1] = "done" /\ run[1] = 2 /\ first.valid
    /\ first.total_feat > 0 /\ first.total_risk > 0
    /\ Cardinality(technical_features) = total_feat[1]
    /\ Cardinality(risk_events) = total_risk[1]

\* C2: no step removes or changes a row of either table, and every row a
\* step adds has a key that had no row before.
C2_ExistingRowsUntouched ==
    [][/\ technical_features \subseteq technical_features'
       /\ risk_events \subseteq risk_events'
       /\ \A r \in technical_features' \ technical_features :
             Key(r) \notin Keys(technical_features)
       /\ \A r \in risk_events' \ risk_events :
             Key(r) \notin Keys(risk_events)]_vars

\* A finished run that attempted the keys of both preloaded rows, skipped
\* them and added the others.
C2_Witness ==
    /\ preloaded /\ pc[1] = "done"
    /\ StaleFeatureRow \in technical_features /\ StaleRiskRow \in risk_events
    /\ Len(price_data[1]) = MaxLen
    /\ total_feat[1] >= 2
    /\ inserted[1] > 0
    /\ inserted[1] = total_feat[1] + total_risk[1] - 2
    /\ UniqueKeys(technical_features) /\ UniqueKeys(risk_events)

\* C3: every row of technical_features, committed or pending in an open
\* transaction, has all 20 indicator fields present.
C3_FeatureRowsComplete ==
    /\ \A r \in technical_features : Complete(r)
    /\ \A p \in Procs : tx[p].table = "technical_features" =>
          \A r \in tx[p].pending : Complete(r)

\* The last point of a full-length series has low = 0 (no high_low_ratio):
\* the point before it is stored, the point itself is not.
C3_Witness ==
    /\ ~preloaded /\ pc[1] = "done"
    /\ \E a \in Assets :
          /\ Len(price_data[a]) = MaxLen
          /\ price_data[a][MaxLen].low = Num(0, 1)
          /\ <<a, MaxLen - 1>> \in Keys(technical_features)
          /\ <<a, MaxLen>> \notin Keys(technical_features)

\* C4: the risk batch of a series of N points (close > 0) has exactly one
\* row per point 2..N, in order, with previous_close and current_close the
\* two closes, price_change_pct = 100 * (c1/c0 - 1) and is_risk_event true
\* exactly when c1/c0 - 1 <= -0.02.
C4_RiskRowsPointwise ==
    \A p \in Procs : tx[p].table = "risk_events" =>
        LET s    == price_data[metal[p]]
            rows == tx[p].rows
        IN /\ Len(rows) = Len(s) - 1
           /\ \A k \in 1..Len(rows) :
                 LET c0 == s[k].close[2]
                     c1 == s[k + 1].close[2]
                     r  == rows[k]
                 IN /\ c0 > 0 /\ c1 > 0
                    /\ r.metal_id = metal[p]
                    /\ r.date = s[k + 1].date
                    /\ r.previous_close = Num(c0, 1)
                    /\ r.current_close = Num(c1, 1)
                    /\ r.price_change_pct[1] = "num"
                    /\ r.price_change_pct[2] * c0
                          = 100 * (c1 - c0) * r.price_change_pct[3]
                    /\ r.is_risk_event = (100 * (c1 - c0) <= (-2) * c0)

\* The closes 100, 97, 99: rows for points 2 and 3, flags true and false,
\* price_change_pct -3.0 for point 2.
C4_Witness ==
    /\ tx[1].table = "risk_events"
    /\ price_data[metal[1]] = MkSeries(3, "plain")
    /\ Len(tx[1].rows) = 2
    /\ tx[1].rows[1].date = 2 /\ tx[1].rows[2].date = 3
    /\ tx[1].rows[1].is_risk_event /\ ~tx[1].rows[2].is_risk_event
    /\ tx[1].rows[1].price_change_pct = Num(-300, 100)

\* C5: once main has ended, a metal that has feature rows in the store has
\* all its risk rows in the store too (the rows of one metal are committed
\* together or not at all).
C5_PerAssetAtomic ==
    (MainEnded(1) /\ ~preloaded) =>
        \A a \in Assets :
            (\E r \in technical_features : r.metal_id = a) =>
                RiskKeys(a) \subseteq Keys(risk_events)

\* C6: when main has ended without a store failure, every metal other than
\* the one whose load failed has its risk rows in the store.
C6_LoadFailureIsolated ==
    (MainEnded(1) /\ raised[1] \in {"none", "load"}) =>
        \A a \in Assets :
            (raised[1] = "load" => a # metal[1]) =>
                RiskKeys(a) \subseteq Keys(risk_events)

\* C7: main never ends without having printed its summary.
C7_SummaryAlwaysPrinted ==
    \A p \in Procs : MainEnded(p) => pc[p] = "done"

\* C8: sma_k is absent before date k; every feature row written has a date
\* of at least WarmUp (index >= 49); a series of fewer than WarmUp points
\* gives an empty feature batch and a risk batch with the dates 2..N.
C8_WarmUpBoundary ==
    /\ \A r \in technical_features \ {StaleFeatureRow} : r.date >= WarmUp
    /\ \A p \in Procs :
          /\ \A i \in 1..Len(df_feat[p]) :
                /\ i < 5 => isna(df_feat[p][i].sma_5)
                /\ i < 10 => isna(df_feat[p][i].sma_10)
                /\ i < 20 => isna(df_feat[p][i].sma_20)
                /\ i < WarmUp => isna(df_feat[p][i].sma_50)
          /\ tx[p].table = "technical_features" =>
                /\ \A k \in 1..Len(tx[p].rows) : tx[p].rows[k].date >= WarmUp
                /\ Len(price_data[metal[p]]) < WarmUp => tx[p].rows = <<>>
          /\ (tx[p].table = "risk_events" /\ Len(price_data[metal[p]]) < WarmUp) =>
                /\ Len(tx[p].rows) = Len(price_data[metal[p]]) - 1
                /\ \A k \in 1..Len(tx[p].rows) : tx[p].rows[k].date = k + 1

\* A series of WarmUp - 1 points: no feature row, WarmUp - 2 risk rows, all
\* of them inserted.
C8_Witness ==
    /\ tx[1].table = "risk_events"
    /\ Len(price_data[metal[1]]) = WarmUp - 1
    /\ n_feat[1] = 0
    /\ Len(tx[1].rows) = WarmUp - 2
    /\ tx[1].pos > Len(tx[1].rows)
    /\ Cardinality(tx[1].pending) = WarmUp - 2

\* The keys one run writes: the complete rows of every metal's frame.
SingleRunFeatureKeys ==
    UNION {Keys(Range(FeatureBatch(build_features(load_price_data(a), pandas_pads))))
             : a \in Assets}

SingleRunRiskKeys == UNION {RiskKeys(a) : a \in Assets}

\* C9: with two runs interleaved, each table holds at most one row per
\* (metal_id, date), no run ends on a duplicate key, and once both runs
\* have ended and one has printed its summary the keys of each table are
\* those a single run writes.
C9_ParallelRunsArbitrated ==
    /\ UniqueKeys(technical_features)
    /\ UniqueKeys(risk_events)
    /\ \A p \in Procs : raised[p] # "unique_violation"
    /\ ((\A p \in Procs : MainEnded(p)) /\ (\E p \in Procs : pc[p] = "done")) =>
          /\ Keys(technical_features)
                = SingleRunFeatureKeys \cup Keys(IF preloaded THEN {StaleFeatureRow} ELSE {})
          /\ Keys(risk_events)
                = SingleRunRiskKeys \cup Keys(IF preloaded THEN {StaleRiskRow} ELSE {})

\* Both runs printed their summary and each of them added rows.
C9_Witness ==
    /\ \A p \in Procs : pc[p] = "done" /\ inserted[p] > 0
    /\ total_risk[1] = total_risk[2]
    /\ total_feat[1] > 0
    /\ inserted[1] + inserted[2] = total_feat[1] + total_risk[1]

\* C10: in the frame build_features returns, volume_change is absent at
\* the first point and after a point whose volume is null or 0, and no
\* feature row is written for such a point.
C10_ZeroVolumeAbsent ==
    \A p \in Procs : pc[p] = "write_feat" =>
        \A i \in 1..Len(df_feat[p]) :
            (i = 1 \/ isna(df_feat[p][i - 1].volume) \/ df_feat[p][i - 1].volume = Num(0, 1)) =>
                /\ isna(df_feat[p][i].volume_change)
                /\ \A k \in 1..Len(tx[p].rows) : tx[p].rows[k].date # i

====
